---------------------------- MODULE Spec2Model ----------------------------
(***************************************************************************)
(* The predictive-search controller of the theme                           *)
(* (src/assets/enhanced-search.js, class EnhancedPredictiveSearch) as a    *)
(* state machine: one action per event listener, timer callback and        *)
(* promise continuation.  Strings are TLA+ strings; the DOM of the result  *)
(* panel is kept as the class flag of the panel, the two inline display    *)
(* values and the child list of the content element.                       *)
(*                                                                         *)
(* Assumed page markup: the result panel lies inside the element marked    *)
(* data-search-container, so a click on a suggestion button is not an      *)
(* outside click; a suggestion button can be clicked only while the        *)
(* suggestion view is displayed.                                           *)
(*                                                                         *)
(* Spec is the controller from construction.  FreshFairSpec is the         *)
(* controller on a page with an empty store, every fetch settling in the   *)
(* end.  RenderSpec is one call of displayResults on a response and query  *)
(* drawn from bounded sets, PriceSpec the same call on one priced product. *)
(* SupersededSpec is the controller taken up with two fetches in flight.   *)
(*                                                                         *)
(* Two more scripts of the page (src/assets/asset-optimizer.js) have their *)
(* own variables and specifications: OptimizerSpec is the intersection     *)
(* observer of AssetOptimizer with loadDeferredAssets, CarouselSpec the    *)
(* swipeable carousel of MobileUXEnhancer with its dots.                   *)
(***************************************************************************)
EXTENDS Integers, Sequences, FiniteSets, TLC

VARIABLES
  inputValue,          \* searchInput.value
  debounceTimer,       \* this.debounceTimer: 0 for null, else a timer id
  timers,              \* the browser's pending timeouts: [id, query, elapsed]
  timerCount,          \* number of setTimeout calls so far (the last id)
  restarted,           \* the input event of the pending timeout cancelled one
  currentQuery,        \* this.currentQuery
  searchHistory,       \* this.searchHistory
  storage,             \* localStorage item 'searchHistory': NoItem or JSON text
  recentButtons,       \* terms of the buttons in [data-search-recent]
  shown,               \* panel has class predictive-search-results--show
  suggestionsDisplay,  \* style.display of [data-search-suggestions]
  contentDisplay,      \* style.display of [data-search-content]
  content,             \* children of [data-search-content]
  inflight,            \* suspended fetchSearchResults calls: [id, query]
  fetchCount,          \* number of calls to fetch(url) so far
  lastFetchUrl,        \* the url of the latest call to fetch, "" if none
  escaped,             \* an exception left fetchSearchResults (rejected promise)
  submits,             \* number of submit events so far
  lastHandled,         \* argument of the latest handleSearch call, NoCall if none
  hiddenSince,         \* hideResults ran after the latest handleSearch call
  repeat,              \* the latest handleSearch call against the one before
  lastOp,              \* the handler that ran last
  loadedAssets,        \* AssetOptimizer: this.loadedAssets
  head,                \* nodes loadCSS and loadJS appended to document.head
  observed,            \* targets of this.intersectionObserver
  startX,              \* makeCarouselSwipeable: startX
  currentX,            \* makeCarouselSwipeable: currentX
  isDragging,          \* makeCarouselSwipeable: isDragging
  currentSlide,        \* makeCarouselSwipeable: currentSlide
  transform,           \* carousel.style.transform: translateX, tenths of a percent
  activeDots           \* indexes of the dots with class active

vars == <<inputValue, debounceTimer, timers, timerCount, restarted, currentQuery,
          searchHistory, storage, recentButtons, shown, suggestionsDisplay,
          contentDisplay, content, inflight, fetchCount, lastFetchUrl, escaped,
          submits, lastHandled, hiddenSince, repeat, lastOp,
          loadedAssets, head, observed,
          startX, currentX, isDragging, currentSlide, transform, activeDots>>

\* the state of the search controller
searchControllerVars ==
  <<inputValue, debounceTimer, timers, timerCount, restarted, currentQuery,
    searchHistory, storage, recentButtons, shown, suggestionsDisplay,
    contentDisplay, content, inflight, fetchCount, lastFetchUrl, escaped,
    submits, lastHandled, hiddenSince, repeat>>

\* the state of the asset optimizer
optimizerVars == <<loadedAssets, head, observed>>

\* the state of the carousel
carouselVars == <<startX, currentX, isDragging, currentSlide, transform, activeDots>>

\* the state of the other scripts of the page, which the search controller
\* neither reads nor writes
pageVars == <<optimizerVars, carouselVars>>

----------------------------------------------------------------------------
(* Bounds of the model *)

MaxInputs == 2        \* input events per behaviour
MaxFetches == 2       \* calls to fetch per behaviour
MaxSubmits == 1       \* submit events per behaviour
TickStep == 150       \* time advances in steps of this many time units
MaxItems == 2         \* entries of a category array of a rendered response
MaxPrice == 120       \* every price from 0 to this one is rendered
MaxEntries == 2       \* entries handed to one call of the intersection callback
TotalSlides == 3      \* slides of the carousel

(* Program constants *)

DebounceDelay == 300
MinQueryLength == 2
HistoryCap == 10
RecentShown == 5

PopularTerms == <<"new arrivals", "bestsellers", "sale", "accessories">>

\* localStorage.getItem: null, or the stored text
NoItem == [has |-> FALSE, text |-> ""]
Item(text) == [has |-> TRUE, text |-> text]

NoCall == [called |-> FALSE, query |-> ""]
Call(query) == [called |-> TRUE, query |-> query]

\* a category of a response body: no such property, or an array
Absent == [present |-> FALSE, list |-> <<>>]
Array(list) == [present |-> TRUE, list |-> list]

----------------------------------------------------------------------------
(* Inputs *)

\* texts the user can leave in the input field
RawInputs == {"", "ab "}

\* histories a previous page view can have left in the store
StoredHistories ==
  { <<"h1", "a", "ab", "h4", "h5", "h6", "h7", "h8", "h9", "h10">> }

\* bodies of a response that parses as JSON: each category array is absent
\* or a sequence of records
Shoe ==
  [title |-> "Shoe", url |-> "/products/shoe", image |-> "", price |-> 2500]

Responses ==
  { [products |-> Array(<<>>), collections |-> Array(<<>>),
     articles |-> Array(<<>>)],
    [products |-> Absent, collections |-> Absent, articles |-> Absent],
    [products |-> Array(<<Shoe>>),
     collections |-> Array(<<>>), articles |-> Array(<<>>)],
    [products |-> Array(<<Shoe>>),
     collections |-> Absent, articles |-> Array(<<>>)] }

\* entries of the category arrays of the responses given to displayResults
Injected == "<img src=x onerror=alert(1)>"

ProductPool ==
  { Shoe,
    [title |-> Injected, url |-> "/products/x", image |-> "/x.png",
     price |-> 123456] }

CollectionPool ==
  { [title |-> "Boots", url |-> "/collections/boots", image |-> "",
     products_count |-> 0],
    [title |-> "<b>Sale</b>", url |-> "/collections/sale", image |-> "/s.png",
     products_count |-> 12] }

ArticlePool ==
  { [title |-> "<u>Care</u>", url |-> "/blogs/care",
     summary |-> "<script>steal()</script>"] }

\* the sequences of at most n members of pool
SeqsUpTo(pool, n) == UNION {[1..k -> pool] : k \in 0..n}

\* a category of a response: absent, or an array of at most MaxItems entries
Categories(pool) == {Absent} \cup {Array(list) : list \in SeqsUpTo(pool, MaxItems)}

RenderedResponses ==
  [products : Categories(ProductPool), collections : Categories(CollectionPool),
   articles : Categories(ArticlePool)]

\* the queries displayResults is given
RenderedQueries == {"ab", "<i>x"}

\* product prices, in cents: the small ones and some with more digits
Prices == (0..MaxPrice) \cup {999, 2500, 99999, 100000, 123456, 100000007}

PricedResponses ==
  { [products |-> Array(<<[Shoe EXCEPT !.price = price]>>),
     collections |-> Array(<<>>), articles |-> Array(<<>>)] : price \in Prices }

----------------------------------------------------------------------------
(* String helpers *)

RECURSIVE Trim(_)
\* String.prototype.trim, for the space character
Trim(s) ==
  IF Len(s) = 0 THEN s
  ELSE IF SubSeq(s, 1, 1) = " " THEN Trim(SubSeq(s, 2, Len(s)))
  ELSE IF SubSeq(s, Len(s), Len(s)) = " " THEN Trim(SubSeq(s, 1, Len(s) - 1))
  ELSE s

Quote == "\""

RECURSIVE JoinQuoted(_)
JoinQuoted(list) ==
  IF Len(list) = 0 THEN ""
  ELSE IF Len(list) = 1 THEN Quote \o list[1] \o Quote
  ELSE Quote \o list[1] \o Quote \o "," \o JoinQuoted(Tail(list))

\* JSON.stringify of an array of strings (none holds a quote or backslash)
JSONStringify(list) == "[" \o JoinQuoted(list) \o "]"

RECURSIVE QuoteAt(_, _)
\* index of the first quote of s at or after position i, 0 if none
QuoteAt(s, i) ==
  IF i > Len(s) THEN 0
  ELSE IF SubSeq(s, i, i) = Quote THEN i
  ELSE QuoteAt(s, i + 1)

RECURSIVE ParseItems(_)
\* the strings of the comma-separated quoted items of s
ParseItems(s) ==
  IF Len(s) = 0 THEN <<>>
  ELSE LET close == QuoteAt(s, 2)
           rest == SubSeq(s, close + 1, Len(s))
       IN <<SubSeq(s, 2, close - 1)>> \o
          (IF Len(rest) = 0 THEN <<>> ELSE ParseItems(SubSeq(rest, 2, Len(rest))))

\* JSON.parse of the text of an array of strings
JSONParse(text) == ParseItems(SubSeq(text, 2, Len(text) - 1))

\* Array.prototype.slice(0, n)
Slice(list, n) == SubSeq(list, 1, IF Len(list) < n THEN Len(list) ELSE n)

Range(list) == {list[i] : i \in 1..Len(list)}


\* the escape encodeURIComponent gives a character: letters and digits are
\* kept
Escaped(char) ==
  IF char = " " THEN "%20"
  ELSE IF char = "<" THEN "%3C"
  ELSE IF char = ">" THEN "%3E"
  ELSE IF char = Quote THEN "%22"
  ELSE IF char = "/" THEN "%2F"
  ELSE char

RECURSIVE EncodeURIComponent(_)
EncodeURIComponent(s) ==
  IF Len(s) = 0 THEN ""
  ELSE Escaped(SubSeq(s, 1, 1)) \o EncodeURIComponent(SubSeq(s, 2, Len(s)))

SuggestUrl(query) ==
  "/search/suggest.json?q=" \o EncodeURIComponent(query)
    \o "&resources[type]=product,collection,article&resources[limit]=8"

----------------------------------------------------------------------------
(* DOM writes.  A string is kept with the way it reached the page: the
   textContent of an element, an attribute or property of an element (href,
   src, alt) or the innerHTML of an element (parsed as markup). *)

Text(value) == [sink |-> "textContent", value |-> value]
Attr(value) == [sink |-> "attribute", value |-> value]
Markup(value) == [sink |-> "innerHTML", value |-> value]

----------------------------------------------------------------------------
(* Panel *)

\* showSuggestions that leaves the result content displayed
showSuggestions_keepContent ==
  /\ suggestionsDisplay' = "block"
  /\ shown' = TRUE
  /\ UNCHANGED contentDisplay

showSuggestions ==
  /\ suggestionsDisplay' = "block"
  /\ contentDisplay' = "none"
  /\ shown' = TRUE

\* a showResults that leaves the suggestions displayed
showResults_keepSuggestions ==
  /\ contentDisplay' = "block"
  /\ shown' = TRUE
  /\ UNCHANGED suggestionsDisplay

showResults ==
  /\ suggestionsDisplay' = "none"
  /\ contentDisplay' = "block"
  /\ shown' = TRUE

\* the static markup showLoading assigns to innerHTML
LoadingNode ==
  [kind |-> "loading",
   html |-> Markup("<div class=search-loading><p>Searching...</p></div>")]

\* showLoading without the call of showResults
showLoading_noShow ==
  /\ content' = <<LoadingNode>>
  /\ UNCHANGED <<suggestionsDisplay, contentDisplay, shown>>

\* content.innerHTML = loading markup; this.showResults()
showLoading ==
  /\ content' = <<LoadingNode>>
  /\ showResults

\* hideResults that does not reset the current-query marker
hideResults_keepQuery ==
  /\ shown' = FALSE
  /\ hiddenSince' = TRUE
  /\ UNCHANGED currentQuery

hideResults ==
  /\ shown' = FALSE
  /\ currentQuery' = ""
  /\ hiddenSince' = TRUE

----------------------------------------------------------------------------
(* Rendering *)

\* the last two decimal digits of a number of cents
TwoDigits(n) == IF n < 10 THEN "0" \o ToString(n) ELSE ToString(n)

ThreeDigits(n) ==
  IF n < 10 THEN "00" \o ToString(n)
  ELSE IF n < 100 THEN "0" \o ToString(n) ELSE ToString(n)

RECURSIVE Grouped(_)
\* the integer digits in groups of three, the en-US way
Grouped(n) ==
  IF n < 1000 THEN ToString(n)
  ELSE Grouped(n \div 1000) \o "," \o ThreeDigits(n % 1000)

\* Intl.NumberFormat('en-US', currency USD).format(price / 100), for an
\* integer price >= 0
\* a formatPrice that does not pad the cents to two digits
formatPrice_unpadded(price) ==
  "$" \o Grouped(price \div 100) \o "." \o ToString(price % 100)

formatPrice(price) ==
  "$" \o Grouped(price \div 100) \o "." \o TwoDigits(price % 100)

\* the renderProducts that writes the title as markup
renderProducts_innerHTML(products) ==
  [kind |-> "section", title |-> Text("Products"),
   items |-> [i \in 1..Len(products) |->
     [href |-> Attr(products[i].url),
      src |-> Attr(products[i].image),
      alt |-> Attr(products[i].title),
      title |-> Markup(products[i].title),
      line |-> Text(formatPrice(products[i].price))]]]

renderProducts(products) ==
  [kind |-> "section", title |-> Text("Products"),
   items |-> [i \in 1..Len(products) |->
     [href |-> Attr(products[i].url),
      src |-> Attr(products[i].image),
      alt |-> Attr(products[i].title),
      title |-> Text(products[i].title),
      line |-> Text(formatPrice(products[i].price))]]]

\* a renderCollections that appends the entries last to first
renderCollections_reversed(collections) ==
  [kind |-> "section", title |-> Text("Collections"),
   items |-> [i \in 1..Len(collections) |->
     LET c == collections[Len(collections) + 1 - i]
     IN [href |-> Attr(c.url),
         src |-> Attr(c.image),
         alt |-> Attr(c.title),
         title |-> Text(c.title),
         line |-> Text(ToString(c.products_count) \o " products")]]]

renderCollections(collections) ==
  [kind |-> "section", title |-> Text("Collections"),
   items |-> [i \in 1..Len(collections) |->
     [href |-> Attr(collections[i].url),
      src |-> Attr(collections[i].image),
      alt |-> Attr(collections[i].title),
      title |-> Text(collections[i].title),
      line |-> Text(ToString(collections[i].products_count) \o " products")]]]

renderArticles(articles) ==
  [kind |-> "section", title |-> Text("Articles"),
   items |-> [i \in 1..Len(articles) |->
     [href |-> Attr(articles[i].url),
      src |-> Attr(""),
      alt |-> Attr(""),
      title |-> Text(articles[i].title),
      line |-> Text(articles[i].summary)]]]

renderNoResults(query) ==
  [kind |-> "noResults", query |-> query,
   title |-> Text("No results found for " \o Quote \o query \o Quote)]

ViewAllNode(query) ==
  [kind |-> "viewAll", href |-> "/search?q=" \o EncodeURIComponent(query),
   query |-> query,
   text |-> Text("View all results for " \o Quote \o query \o Quote \o " ->")]

\* list.length > 0 of a category array; reading .length of an absent array
\* throws a TypeError
Throws(category) == ~category.present
NonEmpty(category) == Len(category.list) > 0

\* a displayResults whose hasResults flag is set by the products only
displayResults_productsFlag(data, query) ==
  LET c0 == <<>>
  IN IF Throws(data.products) THEN [content |-> c0, threw |-> TRUE]
     ELSE
     LET c1 == IF NonEmpty(data.products)
               THEN Append(c0, renderProducts(data.products.list)) ELSE c0
     IN IF Throws(data.collections) THEN [content |-> c1, threw |-> TRUE]
        ELSE
        LET c2 == IF NonEmpty(data.collections)
                  THEN Append(c1, renderCollections(data.collections.list)) ELSE c1
        IN IF Throws(data.articles) THEN [content |-> c2, threw |-> TRUE]
           ELSE
           LET c3 == IF NonEmpty(data.articles)
                     THEN Append(c2, renderArticles(data.articles.list)) ELSE c2
               hasResults == c1 # c0
               c4 == IF ~hasResults THEN Append(c3, renderNoResults(query)) ELSE c3
           IN [content |-> Append(c4, ViewAllNode(query)), threw |-> FALSE]

\* a displayResults that does not clear the content first
displayResults_noClear(data, query) ==
  LET c0 == content
  IN IF Throws(data.products) THEN [content |-> c0, threw |-> TRUE]
     ELSE
     LET c1 == IF NonEmpty(data.products)
               THEN Append(c0, renderProducts(data.products.list)) ELSE c0
     IN IF Throws(data.collections) THEN [content |-> c1, threw |-> TRUE]
        ELSE
        LET c2 == IF NonEmpty(data.collections)
                  THEN Append(c1, renderCollections(data.collections.list)) ELSE c1
        IN IF Throws(data.articles) THEN [content |-> c2, threw |-> TRUE]
           ELSE
           LET c3 == IF NonEmpty(data.articles)
                     THEN Append(c2, renderArticles(data.articles.list)) ELSE c2
               hasResults == c3 # c0
               c4 == IF ~hasResults THEN Append(c3, renderNoResults(query)) ELSE c3
           IN [content |-> Append(c4, ViewAllNode(query)), threw |-> FALSE]

\* The child list displayResults leaves in the content element and whether
\* it threw before reaching showResults.  The content is cleared first, so
\* what was appended before a throw stays.
displayResults(data, query) ==
  LET c0 == <<>>
  IN IF Throws(data.products) THEN [content |-> c0, threw |-> TRUE]
     ELSE
     LET c1 == IF NonEmpty(data.products)
               THEN Append(c0, renderProducts(data.products.list)) ELSE c0
     IN IF Throws(data.collections) THEN [content |-> c1, threw |-> TRUE]
        ELSE
        LET c2 == IF NonEmpty(data.collections)
                  THEN Append(c1, renderCollections(data.collections.list)) ELSE c1
        IN IF Throws(data.articles) THEN [content |-> c2, threw |-> TRUE]
           ELSE
           LET c3 == IF NonEmpty(data.articles)
                     THEN Append(c2, renderArticles(data.articles.list)) ELSE c2
               hasResults == c3 # c0
               c4 == IF ~hasResults THEN Append(c3, renderNoResults(query)) ELSE c3
           IN [content |-> Append(c4, ViewAllNode(query)), threw |-> FALSE]

----------------------------------------------------------------------------
(* Search *)

\* a fetchSearchResults that aborts the fetches issued before
fetchSearchResults_abortPrevious(query) ==
  /\ fetchCount' = fetchCount + 1
  /\ lastFetchUrl' = SuggestUrl(query)
  /\ inflight' = {[id |-> fetchCount + 1, query |-> query]}

\* the synchronous part of fetchSearchResults: the call to fetch(url)
fetchSearchResults(query) ==
  /\ fetchCount' = fetchCount + 1
  /\ lastFetchUrl' = SuggestUrl(query)
  /\ inflight' = inflight \cup
       {[id |-> fetchCount + 1, query |-> query]}

\* handleSearch without the comparison with this.currentQuery
handleSearch_noShortCircuit(query) ==
  /\ lastHandled' = Call(query)
  /\ repeat' = IF lastHandled # Call(query) THEN "none"
               ELSE IF hiddenSince THEN "hidden" ELSE "clean"
  /\ hiddenSince' = FALSE
  /\ IF Len(query) < MinQueryLength
     THEN /\ showSuggestions
          /\ UNCHANGED <<currentQuery, content, inflight, fetchCount, lastFetchUrl>>
     ELSE /\ currentQuery' = query
          /\ showLoading
          /\ fetchSearchResults(query)

\* a handleSearch whose short-query branch empties the current-query marker
handleSearch_shortResets(query) ==
  /\ lastHandled' = Call(query)
  /\ repeat' = IF lastHandled # Call(query) THEN "none"
               ELSE IF hiddenSince THEN "hidden" ELSE "clean"
  /\ IF Len(query) < MinQueryLength
     THEN /\ showSuggestions
          /\ hiddenSince' = FALSE
          /\ currentQuery' = ""
          /\ UNCHANGED <<content, inflight, fetchCount, lastFetchUrl>>
     ELSE IF query = currentQuery
     THEN /\ hiddenSince' = FALSE
          /\ UNCHANGED <<currentQuery, content, inflight, fetchCount,
                         lastFetchUrl, shown, suggestionsDisplay, contentDisplay>>
     ELSE /\ currentQuery' = query
          /\ hiddenSince' = FALSE
          /\ showLoading
          /\ fetchSearchResults(query)

\* a handleSearch that stores the query in the marker before it tests the
\* length
handleSearch_marksShort(query) ==
  /\ lastHandled' = Call(query)
  /\ repeat' = IF lastHandled # Call(query) THEN "none"
               ELSE IF hiddenSince THEN "hidden" ELSE "clean"
  /\ IF Len(query) < MinQueryLength
     THEN /\ showSuggestions
          /\ hiddenSince' = FALSE
          /\ currentQuery' = query
          /\ UNCHANGED <<content, inflight, fetchCount, lastFetchUrl>>
     ELSE IF query = currentQuery
     THEN /\ hiddenSince' = FALSE
          /\ UNCHANGED <<currentQuery, content, inflight, fetchCount,
                         lastFetchUrl, shown, suggestionsDisplay, contentDisplay>>
     ELSE /\ currentQuery' = query
          /\ hiddenSince' = FALSE
          /\ showLoading
          /\ fetchSearchResults(query)

handleSearch(query) ==
  /\ lastHandled' = Call(query)
  /\ repeat' = IF lastHandled # Call(query) THEN "none"
               ELSE IF hiddenSince THEN "hidden" ELSE "clean"
  /\ IF Len(query) < MinQueryLength
     THEN /\ showSuggestions
          /\ hiddenSince' = FALSE
          /\ UNCHANGED <<currentQuery, content, inflight, fetchCount, lastFetchUrl>>
     ELSE IF query = currentQuery
     THEN /\ hiddenSince' = FALSE
          /\ UNCHANGED <<currentQuery, content, inflight, fetchCount,
                         lastFetchUrl, shown, suggestionsDisplay, contentDisplay>>
     ELSE /\ currentQuery' = query
          /\ hiddenSince' = FALSE
          /\ showLoading
          /\ fetchSearchResults(query)

\* handleSearch(query) calls fetch
Dispatches(query) == Len(query) >= MinQueryLength /\ query # currentQuery

CanHandle(query) == Dispatches(query) => fetchCount < MaxFetches

NoData == [products |-> Absent, collections |-> Absent, articles |-> Absent]

\* the handler that ran: its name, the parameter of its event, the branch it
\* took and the response body it was given
Op(name, arg, outcome) ==
  [name |-> name, arg |-> arg, outcome |-> outcome, data |-> NoData]

----------------------------------------------------------------------------
(* History *)

\* addToSearchHistory without the filter that removes the equal entry
addToSearchHistory_noFilter(history, query) ==
  Slice(<<query>> \o history, HistoryCap)

\* the list addToSearchHistory leaves in this.searchHistory
addToSearchHistory(history, query) ==
  Slice(<<query>> \o SelectSeq(history, LAMBDA term : term # query), HistoryCap)

----------------------------------------------------------------------------
(* Asset optimizer (src/assets/asset-optimizer.js, class AssetOptimizer):
   the intersection observer and loadDeferredAssets.  An element is the
   record of its identity and its data-lazy-load attribute. *)

\* the elements matching [data-lazy-load]: two carry the same stylesheet,
\* one names an asset that is neither a stylesheet nor a script, one has an
\* empty attribute
LazyElements ==
  { [id |-> 1, lazyLoad |-> "a.css"],
    [id |-> 2, lazyLoad |-> "a.css"],
    [id |-> 3, lazyLoad |-> "b.js"],
    [id |-> 4, lazyLoad |-> "c.js"],
    [id |-> 5, lazyLoad |-> "hero.png"],
    [id |-> 6, lazyLoad |-> ""] }

\* String.prototype.endsWith
EndsWith(text, suffix) ==
  /\ Len(text) >= Len(suffix)
  /\ SubSeq(text, Len(text) - Len(suffix) + 1, Len(text)) = suffix

\* loadCSS(url): a link element appended to document.head
loadCSS(nodes, url) == Append(nodes, [tag |-> "link", url |-> url])

\* loadJS(url): a script element appended to document.head
loadJS(nodes, url) == Append(nodes, [tag |-> "script", url |-> url])

\* a loadDeferredAssets that does not look its url up in loadedAssets
loadDeferredAssets_noLookup(st, element) ==
  LET assetUrl == element.lazyLoad
  IN IF assetUrl # ""
     THEN [loadedAssets |-> st.loadedAssets \cup {assetUrl},
           head |-> IF EndsWith(assetUrl, ".css") THEN loadCSS(st.head, assetUrl)
                    ELSE IF EndsWith(assetUrl, ".js") THEN loadJS(st.head, assetUrl)
                    ELSE st.head,
           observed |-> st.observed \ {element}]
     ELSE st

\* loadDeferredAssets(element) on the optimizer state st
loadDeferredAssets(st, element) ==
  LET assetUrl == element.lazyLoad
  IN IF assetUrl # "" /\ assetUrl \notin st.loadedAssets
     THEN [loadedAssets |-> st.loadedAssets \cup {assetUrl},
           head |-> IF EndsWith(assetUrl, ".css") THEN loadCSS(st.head, assetUrl)
                    ELSE IF EndsWith(assetUrl, ".js") THEN loadJS(st.head, assetUrl)
                    ELSE st.head,
           observed |-> st.observed \ {element}]
     ELSE st

\* the callback of the intersection observer: entries.forEach
RECURSIVE IntersectionCallback(_, _)
IntersectionCallback(entries, st) ==
  IF entries = <<>>
  THEN st
  ELSE IntersectionCallback(Tail(entries),
         IF Head(entries).isIntersecting
         THEN loadDeferredAssets(st, Head(entries).target)
         ELSE st)

\* the optimizer after its constructor and init(): nothing loaded, every
\* lazy element of the page observed
AssetOptimizerInit(elements) ==
  /\ loadedAssets = {}
  /\ head = <<>>
  /\ observed = elements

----------------------------------------------------------------------------
(* Carousel (src/assets/asset-optimizer.js, class MobileUXEnhancer):
   makeCarouselSwipeable, addCarouselDots and goToSlide for one carousel of
   TotalSlides slides.  The translation is kept in tenths of a percent. *)

\* carousel.offsetWidth
offsetWidth == 100

\* e.touches[0].clientX
TouchXs == {0, 40, 100}

Abs(x) == IF x < 0 THEN 0 - x ELSE x

\* the translation that shows slide slideIndex
TranslateOf(slideIndex) == 0 - slideIndex * 1000

\* goToSlide(carousel, slideIndex)
goToSlide(slideIndex) ==
  /\ transform' = TranslateOf(slideIndex)
  /\ activeDots' = {index \in 0..(TotalSlides - 1) : index = slideIndex}

\* the closure of makeCarouselSwipeable and the dots of addCarouselDots for
\* a carousel with more than one slide
makeCarouselSwipeable ==
  /\ startX = 0
  /\ currentX = 0
  /\ isDragging = FALSE
  /\ currentSlide = 0
  /\ transform = 0
  /\ activeDots = {0}

----------------------------------------------------------------------------
(* Construction: new EnhancedPredictiveSearch() on DOMContentLoaded *)

\* the controller after its constructor
SearchInit ==
  /\ storage \in {NoItem} \cup {Item(JSONStringify(h)) : h \in StoredHistories}
  /\ searchHistory = JSONParse(IF storage.has THEN storage.text ELSE "[]")
  /\ recentButtons = Slice(searchHistory, RecentShown)
  /\ inputValue = ""
  /\ debounceTimer = 0
  /\ timers = {}
  /\ timerCount = 0
  /\ restarted = FALSE
  /\ currentQuery = ""
  /\ shown = FALSE
  /\ suggestionsDisplay = ""
  /\ contentDisplay = ""
  /\ content = <<>>
  /\ inflight = {}
  /\ fetchCount = 0
  /\ lastFetchUrl = ""
  /\ escaped = FALSE
  /\ submits = 0
  /\ lastHandled = NoCall
  /\ hiddenSince = FALSE
  /\ repeat = "none"
  /\ lastOp = Op("constructor", "", "")

\* the page after its scripts ran: no lazy element, the carousel untouched
Init ==
  /\ SearchInit
  /\ AssetOptimizerInit({})
  /\ makeCarouselSwipeable

----------------------------------------------------------------------------
(* Event listeners *)

historyVars == <<searchHistory, storage, recentButtons, submits>>
timerVars == <<debounceTimer, timers, timerCount, restarted>>
panelVars == <<shown, suggestionsDisplay, contentDisplay, content>>
searchVars == <<currentQuery, inflight, fetchCount, lastFetchUrl, lastHandled,
                hiddenSince, repeat>>

\* clearTimeout that cancels nothing
clearTimeout_nothing(pending, handle) == pending

\* clearTimeout(handle): a handle that is null or has fired cancels nothing
clearTimeout(pending, handle) == {t \in pending : t.id # handle}

\* the input listener without the call of clearTimeout
Input_noClear(text) ==
  /\ timerCount < MaxInputs
  /\ LET query == Trim(text)
         id == timerCount + 1
     IN /\ timers' = timers \cup {[id |-> id, query |-> query, elapsed |-> 0]}
        /\ debounceTimer' = id
        /\ timerCount' = id
  /\ inputValue' = text
  /\ restarted' = FALSE
  /\ lastOp' = Op("input", "", "start")
  /\ UNCHANGED <<historyVars, panelVars, searchVars, escaped>>
  /\ UNCHANGED pageVars

\* the input listener
Input(text) ==
  /\ timerCount < MaxInputs
  /\ LET query == Trim(text)
         id == timerCount + 1
         kept == clearTimeout(timers, debounceTimer)
     IN /\ timers' = kept \cup {[id |-> id, query |-> query, elapsed |-> 0]}
        /\ debounceTimer' = id
        /\ timerCount' = id
        /\ restarted' = (kept # timers)
        /\ lastOp' = Op("input", "", IF kept # timers THEN "restart" ELSE "start")
  /\ inputValue' = text
  /\ UNCHANGED <<historyVars, panelVars, searchVars, escaped>>
  /\ UNCHANGED pageVars

\* the callback given to setTimeout, run once its delay has passed
TimerFire(t) ==
  /\ t \in timers
  /\ t.elapsed >= DebounceDelay
  /\ CanHandle(t.query)
  /\ timers' = timers \ {t}
  /\ restarted' = FALSE
  /\ handleSearch(t.query)
  /\ lastOp' = Op("timer", "", IF restarted THEN "restarted" ELSE "first")
  /\ UNCHANGED <<historyVars, inputValue, debounceTimer, timerCount, escaped>>
  /\ UNCHANGED pageVars

\* time passes for the pending timeouts
Tick ==
  /\ \E t \in timers : t.elapsed < DebounceDelay
  /\ timers' = {[t EXCEPT !.elapsed =
                    IF t.elapsed + TickStep > DebounceDelay
                    THEN DebounceDelay ELSE t.elapsed + TickStep] : t \in timers}
  /\ lastOp' = Op("tick", "", "")
  /\ UNCHANGED <<historyVars, panelVars, searchVars, inputValue, debounceTimer,
                 timerCount, restarted, escaped>>
  /\ UNCHANGED pageVars

\* the data-search-term values of the buttons addSearchSuggestions built
SuggestionTerms == Range(PopularTerms) \cup Range(recentButtons)

\* the buttons the user clicks
ClickedTerms == {PopularTerms[3], "ab", "a"} \cap SuggestionTerms

\* a click listener that also records the clicked term in the history
SuggestionClick_recordsTerm(term) ==
  /\ shown /\ suggestionsDisplay = "block"
  /\ term \in SuggestionTerms
  /\ CanHandle(term)
  /\ inputValue' = term
  /\ handleSearch(term)
  /\ searchHistory' = addToSearchHistory(searchHistory, term)
  /\ storage' = Item(JSONStringify(searchHistory'))
  /\ lastOp' = Op("suggestionClick", "", "")
  /\ UNCHANGED <<recentButtons, submits, timerVars, escaped>>
  /\ UNCHANGED pageVars

\* a click listener that cancels the pending debounce timer before it calls
\* handleSearch
SuggestionClick_cancels(term) ==
  /\ shown /\ suggestionsDisplay = "block"
  /\ term \in SuggestionTerms
  /\ CanHandle(term)
  /\ inputValue' = term
  /\ timers' = clearTimeout(timers, debounceTimer)
  /\ handleSearch(term)
  /\ lastOp' = Op("suggestionClick", "", "")
  /\ UNCHANGED <<historyVars, debounceTimer, timerCount, restarted, escaped>>
  /\ UNCHANGED pageVars

\* the click listener of the panel, for a click on a suggestion button
SuggestionClick(term) ==
  /\ shown /\ suggestionsDisplay = "block"
  /\ term \in SuggestionTerms
  /\ CanHandle(term)
  /\ inputValue' = term
  /\ handleSearch(term)
  /\ lastOp' = Op("suggestionClick", "", "")
  /\ UNCHANGED <<historyVars, timerVars, escaped>>
  /\ UNCHANGED pageVars

Keys == {"Escape", "ArrowDown"}

\* a handleKeyboardNavigation whose Escape also cancels the pending timer
\* and aborts the fetches in flight
handleKeyboardNavigation_cancels(key) ==
  /\ key \in Keys
  /\ IF key = "Escape"
     THEN /\ hideResults
          /\ timers' = {}
          /\ inflight' = {}
     ELSE UNCHANGED <<shown, currentQuery, hiddenSince, timers, inflight>>
  /\ lastOp' = Op("keydown", key, "")
  /\ UNCHANGED <<historyVars, debounceTimer, timerCount, restarted, inputValue,
                 suggestionsDisplay, contentDisplay, content, fetchCount,
                 lastFetchUrl, lastHandled, repeat, escaped>>
  /\ UNCHANGED pageVars

\* handleKeyboardNavigation that compares with a key name no key has
handleKeyboardNavigation_wrongKey(key) ==
  /\ key \in Keys
  /\ IF key = "Esc"
     THEN hideResults
     ELSE UNCHANGED <<shown, currentQuery, hiddenSince>>
  /\ lastOp' = Op("keydown", key, "")
  /\ UNCHANGED <<historyVars, timerVars, inputValue, suggestionsDisplay,
                 contentDisplay, content, inflight, fetchCount, lastFetchUrl,
                 lastHandled, repeat, escaped>>
  /\ UNCHANGED pageVars

\* the keydown listener: handleKeyboardNavigation
handleKeyboardNavigation(key) ==
  /\ key \in Keys
  /\ IF key = "Escape"
     THEN hideResults
     ELSE UNCHANGED <<shown, currentQuery, hiddenSince>>
  /\ lastOp' = Op("keydown", key, "")
  /\ UNCHANGED <<historyVars, timerVars, inputValue, suggestionsDisplay,
                 contentDisplay, content, inflight, fetchCount, lastFetchUrl,
                 lastHandled, repeat, escaped>>
  /\ UNCHANGED pageVars

\* the click listener of the document; inContainer: the target has an
\* ancestor marked data-search-container
DocumentClick(inContainer) ==
  /\ IF ~inContainer
     THEN hideResults
     ELSE UNCHANGED <<shown, currentQuery, hiddenSince>>
  /\ lastOp' = Op("documentClick", IF inContainer THEN "inside" ELSE "outside", "")
  /\ UNCHANGED <<historyVars, timerVars, inputValue, suggestionsDisplay,
                 contentDisplay, content, inflight, fetchCount, lastFetchUrl,
                 lastHandled, repeat, escaped>>
  /\ UNCHANGED pageVars

\* a submit listener whose addToSearchHistory does not call setItem
Submit_noPersist ==
  /\ submits < MaxSubmits
  /\ submits' = submits + 1
  /\ LET query == Trim(inputValue)
     IN IF query # ""
        THEN /\ searchHistory' = addToSearchHistory(searchHistory, query)
             /\ UNCHANGED storage
             /\ lastOp' = Op("submit", "", "added")
        ELSE /\ UNCHANGED <<searchHistory, storage>>
             /\ lastOp' = Op("submit", "", "empty")
  /\ UNCHANGED <<recentButtons, timerVars, panelVars, searchVars, inputValue,
                 escaped>>
  /\ UNCHANGED pageVars

\* a submit listener that records the input value without trimming it
Submit_untrimmed ==
  /\ submits < MaxSubmits
  /\ submits' = submits + 1
  /\ LET query == inputValue
     IN IF query # ""
        THEN /\ searchHistory' = addToSearchHistory(searchHistory, query)
             /\ storage' = Item(JSONStringify(searchHistory'))
             /\ lastOp' = Op("submit", "", "added")
        ELSE /\ UNCHANGED <<searchHistory, storage>>
             /\ lastOp' = Op("submit", "", "empty")
  /\ UNCHANGED <<recentButtons, timerVars, panelVars, searchVars, inputValue,
                 escaped>>
  /\ UNCHANGED pageVars

\* a submit listener that rebuilds the recent-search buttons from the new
\* history
Submit_refreshes ==
  /\ submits < MaxSubmits
  /\ submits' = submits + 1
  /\ LET query == Trim(inputValue)
     IN IF query # ""
        THEN /\ searchHistory' = addToSearchHistory(searchHistory, query)
             /\ storage' = Item(JSONStringify(searchHistory'))
             /\ lastOp' = Op("submit", "", "added")
        ELSE /\ UNCHANGED <<searchHistory, storage>>
             /\ lastOp' = Op("submit", "", "empty")
  /\ recentButtons' = Slice(searchHistory', RecentShown)
  /\ UNCHANGED <<timerVars, panelVars, searchVars, inputValue, escaped>>
  /\ UNCHANGED pageVars

\* the submit listener of the form
Submit ==
  /\ submits < MaxSubmits
  /\ submits' = submits + 1
  /\ LET query == Trim(inputValue)
     IN IF query # ""
        THEN /\ searchHistory' = addToSearchHistory(searchHistory, query)
             /\ storage' = Item(JSONStringify(searchHistory'))
             /\ lastOp' = Op("submit", "", "added")
        ELSE /\ UNCHANGED <<searchHistory, storage>>
             /\ lastOp' = Op("submit", "", "empty")
  /\ UNCHANGED <<recentButtons, timerVars, panelVars, searchVars, inputValue,
                 escaped>>
  /\ UNCHANGED pageVars

----------------------------------------------------------------------------
(* Continuations of fetchSearchResults.  Between its two awaits the function
   reads and writes nothing, so a call is suspended once and resumes with
   the outcome of both awaits. *)

\* a catch block that only logs
catch_noHide ==
  /\ escaped' = escaped
  /\ UNCHANGED <<shown, currentQuery, hiddenSince>>

\* a catch block that hides the panel and keeps the current-query marker
catch_keepQuery ==
  /\ shown' = FALSE
  /\ hiddenSince' = TRUE
  /\ UNCHANGED currentQuery
  /\ escaped' = escaped

\* the catch block
catch ==
  /\ hideResults
  /\ escaped' = escaped

\* a network error that is swallowed without running the catch block
FetchReject_silent(f) ==
  /\ f \in inflight
  /\ inflight' = inflight \ {f}
  /\ lastOp' = Op("settle", "", "networkError")
  /\ UNCHANGED <<historyVars, timerVars, panelVars, inputValue, fetchCount,
                 lastFetchUrl, lastHandled, repeat, currentQuery, hiddenSince,
                 escaped>>
  /\ UNCHANGED pageVars

\* await fetch(url) rejects: network error
FetchReject(f) ==
  /\ f \in inflight
  /\ inflight' = inflight \ {f}
  /\ catch
  /\ lastOp' = Op("settle", "", "networkError")
  /\ UNCHANGED <<historyVars, timerVars, inputValue, fetchCount, lastFetchUrl,
                 lastHandled, repeat, suggestionsDisplay, contentDisplay,
                 content>>
  /\ UNCHANGED pageVars

\* await fetch(url) resolves, await response.json() rejects: the body is not
\* JSON
JsonReject(f) ==
  /\ f \in inflight
  /\ inflight' = inflight \ {f}
  /\ catch
  /\ lastOp' = Op("settle", "", "parseError")
  /\ UNCHANGED <<historyVars, timerVars, inputValue, fetchCount, lastFetchUrl,
                 lastHandled, repeat, suggestionsDisplay, contentDisplay,
                 content>>
  /\ UNCHANGED pageVars

\* a continuation that drops the response of a query other than the
\* current-query marker
JsonResolve_dropStale(f, data) ==
  /\ f \in inflight
  /\ data \in Responses
  /\ inflight' = inflight \ {f}
  /\ LET r == displayResults(data, f.query)
     IN IF f.query # currentQuery
        THEN /\ UNCHANGED <<content, shown, suggestionsDisplay, contentDisplay,
                            currentQuery, hiddenSince, escaped>>
             /\ lastOp' = [Op("settle", "", "rendered") EXCEPT !.data = data]
        ELSE /\ content' = r.content
             /\ IF r.threw
                THEN /\ catch
                     /\ UNCHANGED <<suggestionsDisplay, contentDisplay>>
                     /\ lastOp' = [Op("settle", "", "renderError")
                                     EXCEPT !.data = data]
                ELSE /\ showResults
                     /\ UNCHANGED <<currentQuery, hiddenSince, escaped>>
                     /\ lastOp' = [Op("settle", "", "rendered")
                                     EXCEPT !.data = data]
  /\ UNCHANGED <<historyVars, timerVars, inputValue, fetchCount, lastFetchUrl,
                 lastHandled, repeat>>
  /\ UNCHANGED pageVars

\* await fetch(url) resolves, await response.json() resolves with data:
\* this.displayResults(data, query)
JsonResolve(f, data) ==
  /\ f \in inflight
  /\ data \in Responses
  /\ inflight' = inflight \ {f}
  /\ LET r == displayResults(data, f.query)
     IN /\ content' = r.content
        /\ IF r.threw
           THEN /\ catch
                /\ UNCHANGED <<suggestionsDisplay, contentDisplay>>
                /\ lastOp' = [Op("settle", "", "renderError") EXCEPT !.data = data]
           ELSE /\ showResults
                /\ UNCHANGED <<currentQuery, hiddenSince, escaped>>
                /\ lastOp' = [Op("settle", "", "rendered") EXCEPT !.data = data]
  /\ UNCHANGED <<historyVars, timerVars, inputValue, fetchCount, lastFetchUrl,
                 lastHandled, repeat>>
  /\ UNCHANGED pageVars

----------------------------------------------------------------------------

Next ==
  \/ \E text \in RawInputs : Input(text)
  \/ \E t \in timers : TimerFire(t)
  \/ Tick
  \/ \E term \in ClickedTerms : SuggestionClick(term)
  \/ \E key \in Keys : handleKeyboardNavigation(key)
  \/ \E inContainer \in BOOLEAN : DocumentClick(inContainer)
  \/ Submit
  \/ \E f \in inflight : FetchReject(f)
  \/ \E f \in inflight : JsonReject(f)
  \/ \E f \in inflight, data \in Responses : JsonResolve(f, data)

Spec == Init /\ [][Next]_vars

\* some fetch in flight settles
Settle ==
  \E f \in inflight :
    \/ FetchReject(f)
    \/ JsonReject(f)
    \/ \E data \in Responses : JsonResolve(f, data)

\* construction on a page whose store holds no 'searchHistory' item
FreshInit == Init /\ storage = NoItem

\* the controller on such a page, with every issued fetch settling in the end
FreshFairSpec == FreshInit /\ [][Next]_vars /\ WF_vars(Settle)

----------------------------------------------------------------------------
(* displayResults on its own: the panel shows the loading placeholder, a
   parsed response and the query of its fetch are given, and the method is
   called once. *)

\* the panel as showLoading left it, with a response and a query at hand
RenderStart(responses, queries) ==
  /\ storage = NoItem
  /\ searchHistory = <<>>
  /\ recentButtons = <<>>
  /\ inputValue = ""
  /\ debounceTimer = 0
  /\ timers = {}
  /\ timerCount = 0
  /\ restarted = FALSE
  /\ currentQuery = ""
  /\ shown = TRUE
  /\ suggestionsDisplay = "none"
  /\ contentDisplay = "block"
  /\ content = <<LoadingNode>>
  /\ inflight = {}
  /\ fetchCount = 0
  /\ lastFetchUrl = ""
  /\ escaped = FALSE
  /\ submits = 0
  /\ lastHandled = NoCall
  /\ hiddenSince = FALSE
  /\ repeat = "none"
  /\ \E data \in responses, query \in queries :
       lastOp = [Op("response", query, "") EXCEPT !.data = data]
  /\ AssetOptimizerInit({})
  /\ makeCarouselSwipeable

RenderInit == RenderStart(RenderedResponses, RenderedQueries)

\* this.displayResults(data, query); a TypeError leaves the method before
\* showResults
DisplayResultsCall ==
  /\ lastOp.name = "response"
  /\ LET r == displayResults(lastOp.data, lastOp.arg)
     IN /\ content' = r.content
        /\ IF r.threw
           THEN /\ UNCHANGED <<shown, suggestionsDisplay, contentDisplay>>
                /\ lastOp' = [lastOp EXCEPT !.name = "displayResults",
                                            !.outcome = "threw"]
           ELSE /\ showResults
                /\ lastOp' = [lastOp EXCEPT !.name = "displayResults",
                                            !.outcome = "returned"]
  /\ UNCHANGED <<historyVars, timerVars, searchVars, inputValue, escaped>>
  /\ UNCHANGED pageVars

RenderNext == DisplayResultsCall

RenderSpec == RenderInit /\ [][RenderNext]_vars

\* displayResults on a response whose only entry is a product with a price
\* drawn from Prices
PriceInit == RenderStart(PricedResponses, {"sh"})

PriceSpec == PriceInit /\ [][RenderNext]_vars

----------------------------------------------------------------------------
(* The controller taken up with two fetches in flight: a click on the
   popular term 'sale' dispatched the older one, the text 'ab ' typed
   afterwards the newer one, whose loading placeholder is shown.  The
   counters count from the typing of 'ab ' on: its timer and its fetch
   carry the id 1, the older fetch the id 0. *)

SupersededInit ==
  /\ storage = NoItem
  /\ searchHistory = <<>>
  /\ recentButtons = <<>>
  /\ inputValue = "ab "
  /\ debounceTimer = 1
  /\ timers = {}
  /\ timerCount = 1
  /\ restarted = FALSE
  /\ currentQuery = "ab"
  /\ shown = TRUE
  /\ suggestionsDisplay = "none"
  /\ contentDisplay = "block"
  /\ content = <<LoadingNode>>
  /\ inflight = {[id |-> 0, query |-> "sale"], [id |-> 1, query |-> "ab"]}
  /\ fetchCount = 1
  /\ lastFetchUrl = SuggestUrl("ab")
  /\ escaped = FALSE
  /\ submits = 0
  /\ lastHandled = Call("ab")
  /\ hiddenSince = FALSE
  /\ repeat = "none"
  /\ lastOp = Op("timer", "", "first")
  /\ AssetOptimizerInit({})
  /\ makeCarouselSwipeable

SupersededSpec == SupersededInit /\ [][Next]_vars

----------------------------------------------------------------------------
(* The asset optimizer on a page with the elements LazyElements.  The
   observer hands its callback the entries queued since the last call: an
   observed target can be queued more than once, intersecting or not. *)

IntersectionEntries ==
  SeqsUpTo([target : observed, isIntersecting : BOOLEAN], MaxEntries) \ {<<>>}

\* one call of the callback given to new IntersectionObserver
Intersect(entries) ==
  /\ entries \in IntersectionEntries
  /\ LET st == IntersectionCallback(entries,
                 [loadedAssets |-> loadedAssets, head |-> head,
                  observed |-> observed])
     IN /\ loadedAssets' = st.loadedAssets
        /\ head' = st.head
        /\ observed' = st.observed
        /\ lastOp' = Op("intersection", "",
                        IF st.head # head THEN "appended"
                        ELSE IF st.loadedAssets # loadedAssets THEN "marked"
                        ELSE IF \E k \in 1..Len(entries) :
                                  /\ entries[k].isIntersecting
                                  /\ entries[k].target.lazyLoad # ""
                             THEN "skipped"
                        ELSE "nothing")
  /\ UNCHANGED <<searchControllerVars, carouselVars>>

OptimizerInit ==
  /\ SearchInit
  /\ storage = NoItem
  /\ AssetOptimizerInit(LazyElements)
  /\ makeCarouselSwipeable

OptimizerNext == \E entries \in IntersectionEntries : Intersect(entries)

OptimizerSpec == OptimizerInit /\ [][OptimizerNext]_vars

----------------------------------------------------------------------------
(* The carousel under touch events and dot clicks *)

\* the touchstart listener
TouchStart(x) ==
  /\ startX' = x
  /\ isDragging' = TRUE
  /\ lastOp' = Op("touchstart", "", "")
  /\ UNCHANGED <<currentX, currentSlide, transform, activeDots>>
  /\ UNCHANGED <<searchControllerVars, optimizerVars>>

\* the touchmove listener; the resistance is 0.3 beyond 50 pixels
TouchMove(x) ==
  /\ IF ~isDragging
     THEN /\ UNCHANGED <<currentX, transform>>
          /\ lastOp' = Op("touchmove", "", "ignored")
     ELSE LET diffX == startX - x
              resistance == IF Abs(diffX) > 50 THEN 3 ELSE 10
          IN /\ currentX' = x
             /\ transform' = TranslateOf(currentSlide)
                               - ((diffX * resistance * 100) \div offsetWidth)
             /\ lastOp' = Op("touchmove", "", "dragged")
  /\ UNCHANGED <<startX, isDragging, currentSlide, activeDots>>
  /\ UNCHANGED <<searchControllerVars, optimizerVars>>

\* the touchend listener; the threshold is 0.3 of the width
TouchEnd ==
  /\ IF ~isDragging
     THEN /\ UNCHANGED <<isDragging, currentSlide, transform, activeDots>>
          /\ lastOp' = Op("touchend", "", "ignored")
     ELSE LET diffX == startX - currentX
              swiped == 10 * Abs(diffX) > 3 * offsetWidth
          IN /\ isDragging' = FALSE
             /\ currentSlide' =
                  IF swiped /\ diffX > 0 /\ currentSlide < TotalSlides - 1
                  THEN currentSlide + 1
                  ELSE IF swiped /\ diffX < 0 /\ currentSlide > 0
                  THEN currentSlide - 1
                  ELSE currentSlide
             /\ goToSlide(currentSlide')
             /\ lastOp' = Op("touchend", "",
                             IF currentSlide' # currentSlide THEN "moved" ELSE "stayed")
  /\ UNCHANGED <<startX, currentX>>
  /\ UNCHANGED <<searchControllerVars, optimizerVars>>

\* the click listener of dot i
DotClick(i) ==
  /\ i \in 0..(TotalSlides - 1)
  /\ goToSlide(i)
  /\ lastOp' = Op("dotClick", "", "")
  /\ UNCHANGED <<startX, currentX, isDragging, currentSlide>>
  /\ UNCHANGED <<searchControllerVars, optimizerVars>>

CarouselInit ==
  /\ SearchInit
  /\ storage = NoItem
  /\ AssetOptimizerInit({})
  /\ makeCarouselSwipeable

CarouselNext ==
  \/ \E x \in TouchXs : TouchStart(x)
  \/ \E x \in TouchXs : TouchMove(x)
  \/ TouchEnd
  \/ \E i \in 0..(TotalSlides - 1) : DotClick(i)

CarouselSpec == CarouselInit /\ [][CarouselNext]_vars

----------------------------------------------------------------------------
(* Properties *)

\* the step is a call of handleSearch (by the timer or by a suggestion click)
HandleSearchStep == lastOp'.name \in {"timer", "suggestionClick"}
HandleSearchDone == lastOp.name \in {"timer", "suggestionClick"}

NodeKinds(nodes) == {nodes[i].kind : i \in 1..Len(nodes)}

NoDuplicates(list) ==
  \A i, j \in 1..Len(list) : list[i] = list[j] => i = j

EscapeOp == Op("keydown", "Escape", "")
OutsideClickOp == Op("documentClick", "outside", "")

\* C1 as stated: a handleSearch call whose query, of length >= 2, is the
\* query of the call before it issues no fetch, whatever ran in between.
C1_RepeatedCallNeverFetches ==
  [][(HandleSearchStep /\ repeat' # "none"
        /\ Len(lastHandled'.query) >= MinQueryLength)
       => fetchCount' = fetchCount /\ inflight' = inflight]_vars

\* C1 amended: a handleSearch call whose query, of length >= 2, is the query
\* of the call before it issues no fetch provided hideResults did not run
\* between the two calls.
C1_RepeatedCallWithoutHideNeverFetches ==
  [][(HandleSearchStep /\ repeat' = "clean"
        /\ Len(lastHandled'.query) >= MinQueryLength)
       => fetchCount' = fetchCount /\ inflight' = inflight]_vars

C1_Witness ==
  /\ HandleSearchDone
  /\ repeat = "clean"
  /\ Len(lastHandled.query) >= MinQueryLength
  /\ fetchCount = 1

\* C2 as stated: an outside click hides the panel and leaves the history and
\* the current-query marker unchanged.
C2_OutsideClickKeepsQuery ==
  [][lastOp' = OutsideClickOp
       => /\ ~shown'
          /\ searchHistory' = searchHistory /\ storage' = storage
          /\ currentQuery' = currentQuery]_vars

\* C2 amended: an outside click hides the panel, leaves the history (in
\* memory and stored) unchanged and sets the current-query marker to the
\* empty string.
C2_OutsideClickHidesAndClearsQuery ==
  [][lastOp' = OutsideClickOp
       => /\ ~shown'
          /\ searchHistory' = searchHistory /\ storage' = storage
          /\ currentQuery' = ""]_vars

C2_Witness ==
  /\ lastOp = OutsideClickOp
  /\ ~shown
  /\ Len(searchHistory) > 0
  /\ fetchCount > 0
  /\ currentQuery = ""

\* C3: the history never has more than 10 entries nor the same string twice,
\* and a submission of a non-empty query leaves that query at index 0.
C3_HistoryBoundedAndDistinct ==
  /\ [](Len(searchHistory) <= HistoryCap /\ NoDuplicates(searchHistory))
  /\ [][(lastOp'.name = "submit" /\ Trim(inputValue) # "")
          => /\ searchHistory'[1] = Trim(inputValue)
             /\ (Trim(inputValue) \in Range(searchHistory)
                   => Len(searchHistory') = Len(searchHistory))]_vars

C3_Witness ==
  /\ lastOp = Op("submit", "", "added")
  /\ Trim(inputValue) = "ab"
  /\ Len(searchHistory) = HistoryCap
  /\ searchHistory[1] = "ab"
  /\ searchHistory[2] = "h1"

\* C4: a handleSearch call with a query of length 0 or 1 issues no fetch and
\* leaves the panel shown with the suggestions displayed and the result
\* content not displayed.
C4_ShortQueryShowsSuggestions ==
  [][(HandleSearchStep /\ Len(lastHandled'.query) < MinQueryLength)
       => /\ fetchCount' = fetchCount /\ inflight' = inflight
          /\ shown' /\ suggestionsDisplay' = "block"
          /\ contentDisplay' = "none"]_vars

C4_Witness ==
  /\ HandleSearchDone
  /\ Len(lastHandled.query) < MinQueryLength
  /\ "viewAll" \in NodeKinds(content)
  /\ shown /\ suggestionsDisplay = "block" /\ contentDisplay = "none"

\* C5: after the Escape key the panel is hidden and the current-query marker
\* is the empty string, whatever the state before.
C5_EscapeHides ==
  lastOp = EscapeOp => ~shown /\ currentQuery = ""

C5_Witness ==
  /\ lastOp = EscapeOp
  /\ content = <<LoadingNode>>
  /\ inflight # {}
  /\ ~shown /\ currentQuery = ""

\* C6: at most one timer is pending at any time, and an input event leaves
\* its own timer as the only pending one.
C6_AtMostOneTimer ==
  /\ [](Cardinality(timers) <= 1)
  /\ [][lastOp'.name = "input"
          => timers' = {[id |-> timerCount', query |-> Trim(inputValue'),
                         elapsed |-> 0]}]_vars

C6_Witness ==
  /\ lastOp = Op("input", "", "restart")
  /\ Cardinality(timers) = 1

\* C7: the timer calls handleSearch only for the latest input event, once
\* the delay has passed since that event without another input event, and
\* with the trimmed text of that event.
C7_LastKeystrokeWins ==
  /\ [][lastOp'.name = "input"
          => \E t \in timers' :
               t.id = timerCount' /\ t.query = Trim(inputValue')
                 /\ t.elapsed = 0]_vars
  /\ [][lastOp'.name = "timer"
          => /\ Cardinality(timers \ timers') = 1
             /\ \A t \in timers \ timers' :
                  /\ t.id = timerCount
                  /\ t.elapsed >= DebounceDelay
                  /\ lastHandled' = Call(t.query)]_vars

C7_Witness ==
  /\ lastOp = Op("timer", "", "restarted")
  /\ timers = {}
  /\ lastHandled = Call(Trim(inputValue))

\* C8: a handleSearch call with a query of length >= 2 other than the
\* current-query marker sets the marker, shows the loading placeholder with
\* the suggestions not displayed and issues one fetch, for that query; no
\* other step issues a fetch.
C8_NewQueryDispatches ==
  [][LET query == lastHandled'.query
         dispatch == /\ HandleSearchStep
                     /\ Len(query) >= MinQueryLength
                     /\ query # currentQuery
     IN /\ dispatch =>
             /\ currentQuery' = query
             /\ content' = <<LoadingNode>>
             /\ shown' /\ contentDisplay' = "block"
             /\ suggestionsDisplay' = "none"
             /\ fetchCount' = fetchCount + 1
             /\ lastFetchUrl' = SuggestUrl(query)
             /\ inflight \subseteq inflight'
             /\ inflight' \ inflight =
                  {[id |-> fetchCount', query |-> query]}
        /\ (fetchCount' # fetchCount \/ lastFetchUrl' # lastFetchUrl
              \/ ~(inflight' \subseteq inflight))
             => dispatch]_vars

C8_Witness ==
  /\ lastOp = Op("suggestionClick", "", "")
  /\ currentQuery = "sale"
  /\ content = <<LoadingNode>>
  /\ lastFetchUrl = SuggestUrl("sale")
  /\ fetchCount = 2

FailureOutcomes == {"networkError", "parseError"}

\* C9: when a fetch fails by a network error or an unparsable body the panel
\* is hidden, no fetch is issued and no error leaves fetchSearchResults.
C9_FailureHidesWithoutRetry ==
  [][(lastOp'.name = "settle" /\ lastOp'.outcome \in FailureOutcomes)
       => /\ ~shown'
          /\ fetchCount' = fetchCount
          /\ inflight' \subseteq inflight /\ inflight' # inflight
          /\ ~escaped']_vars

C9_Witness ==
  /\ lastOp.name = "settle"
  /\ lastOp.outcome = "parseError"
  /\ ~shown
  /\ fetchCount = 1 /\ inflight = {}

\* C10: a parsed response without any of the three category arrays leaves
\* the panel shown with the no-results placeholder in the displayed content.
C10_AbsentArraysRenderNoResults ==
  (lastOp.name = "settle" /\ lastOp.outcome \in {"rendered", "renderError"}
     /\ lastOp.data = NoData)
    => /\ shown /\ contentDisplay = "block"
       /\ "noResults" \in NodeKinds(content)

Rendered == lastOp.name = "settle" /\ lastOp.outcome = "rendered"

\* the query of the view-all link that ends the content
LinkedQuery(nodes) == nodes[Len(nodes)].query

\* C11: a response that renders overwrites the panel with its own results
\* and leaves the current-query marker alone, whichever query is the newest:
\* when the response for A arrives after the one for a newer query B, the
\* panel shows A's results while the marker is B.
C11_LastArrivalOverwrites ==
  [][(lastOp'.name = "settle" /\ lastOp'.outcome = "rendered")
       => \E f \in inflight \ inflight' :
            /\ content' = displayResults(lastOp'.data, f.query).content
            /\ LinkedQuery(content') = f.query
            /\ shown' /\ contentDisplay' = "block"
            /\ currentQuery' = currentQuery]_vars

C11_Witness ==
  /\ Rendered
  /\ inflight = {} /\ fetchCount = 2
  /\ currentQuery = "sale"
  /\ lastFetchUrl = SuggestUrl("sale")
  /\ LinkedQuery(content) = "ab"
  /\ shown /\ contentDisplay = "block"

\* C12 as stated: at most one fetch is in flight at any time.
C12_AtMostOneInFlight == Cardinality(inflight) <= 1

\* C12 amended: a handler issues at most one fetch, and a fetch leaves the
\* set of fetches in flight only by settling, one per settle step: no input,
\* dispatch, Escape or click cancels one, so several can be in flight.
C12_FetchesEndOnlyBySettling ==
  [][/\ Cardinality(inflight' \ inflight) <= 1
     /\ inflight \ inflight' # {}
          => /\ lastOp'.name = "settle"
             /\ Cardinality(inflight \ inflight') = 1
             /\ inflight' \subseteq inflight]_vars

C12_Witness ==
  /\ HandleSearchDone
  /\ Cardinality(inflight) = 2
  /\ \E f, g \in inflight : f.query = "ab" /\ g.query = "sale" /\ f.id < g.id
  /\ content = <<LoadingNode>>

Min(a, b) == IF a < b THEN a ELSE b

\* the number of entries of list up to index i that differ from query
OthersUpTo(list, query, i) == Cardinality({j \in 1..i : list[j] # query})

\* C13: a submission with a non-empty trimmed input value q turns the
\* history H into q followed by the entries of H other than q in their
\* order, cut to the first 10.
C13_SubmittedQueryMovesToFront ==
  [][(lastOp'.name = "submit" /\ Trim(inputValue) # "")
       => LET q == Trim(inputValue)
              H == searchHistory
              R == searchHistory'
          IN /\ R[1] = q
             /\ Len(R) = Min(HistoryCap, 1 + OthersUpTo(H, q, Len(H)))
             /\ \A i \in 1..Len(H) :
                  (H[i] # q /\ 1 + OthersUpTo(H, q, i) <= HistoryCap)
                    => R[1 + OthersUpTo(H, q, i)] = H[i]]_vars

C13_Witness ==
  /\ lastOp = Op("submit", "", "added")
  /\ inputValue = "sale"
  /\ searchHistory =
       <<"sale", "h1", "a", "ab", "h4", "h5", "h6", "h7", "h8", "h9">>

\* C14: once addToSearchHistory has run the store holds an item, and in
\* every state between two handlers the list parsed from the stored item is
\* the in-memory history.
C14_StoreEqualsMemory ==
  /\ lastOp = Op("submit", "", "added") => storage.has
  /\ storage.has => JSONParse(storage.text) = searchHistory

C14_Witness ==
  /\ lastOp = Op("submit", "", "added")
  /\ storage = Item(JSONStringify(<<"ab">>))
  /\ searchHistory = <<"ab">>

\* C15: the history, in memory and stored, changes only in a submission
\* whose trimmed input value is not empty; a submission whose trimmed input
\* value is empty leaves both unchanged.
C15_OnlySubmitChangesHistory ==
  [][/\ (searchHistory' # searchHistory \/ storage' # storage)
          => (lastOp'.name = "submit" /\ Trim(inputValue) # "")
     /\ (lastOp'.name = "submit" /\ Trim(inputValue) = "")
          => (searchHistory' = searchHistory /\ storage' = storage)]_vars

C15_Witness ==
  /\ lastOp = Op("submit", "", "empty")
  /\ fetchCount = 1 /\ inflight = {}
  /\ "viewAll" \in NodeKinds(content)
  /\ Len(searchHistory) = HistoryCap
  /\ storage = Item(JSONStringify(searchHistory))

\* the states of the panel
Loading == shown /\ contentDisplay = "block" /\ content = <<LoadingNode>>

ShowingResults ==
  /\ shown /\ contentDisplay = "block"
  /\ "section" \in NodeKinds(content) /\ "viewAll" \in NodeKinds(content)

ShowingNoResults ==
  /\ shown /\ contentDisplay = "block"
  /\ "noResults" \in NodeKinds(content) /\ "viewAll" \in NodeKinds(content)

\* C16: the loading placeholder comes up only in a handleSearch call whose
\* query has length >= 2 and differs from the current-query marker, and,
\* every fetch settling in the end, each Loading state is followed by
\* displayed results, the displayed no-results placeholder or a hidden panel.
C16_LoadingEntersAndEnds ==
  /\ [][(Loading' /\ (~Loading \/ fetchCount' # fetchCount))
          => /\ HandleSearchStep
             /\ Len(lastHandled'.query) >= MinQueryLength
             /\ lastHandled'.query # currentQuery]_vars
  /\ (Loading ~> (ShowingResults \/ ShowingNoResults \/ ~shown))

C16_Witness ==
  /\ lastOp = Op("settle", "", "networkError")
  /\ content = <<LoadingNode>>
  /\ contentDisplay = "block"
  /\ ~shown /\ inflight = {}

\* displayResults has run on the response and query kept in lastOp
Displayed == lastOp.name = "displayResults"
DisplayedAll == Displayed /\ lastOp.outcome = "returned"

\* the number of nodes of a kind
CountKind(nodes, kind) ==
  Cardinality({i \in 1..Len(nodes) : nodes[i].kind = kind})

AllEmpty(data) ==
  /\ data.products = Array(<<>>)
  /\ data.collections = Array(<<>>)
  /\ data.articles = Array(<<>>)

\* C17: for a response whose three arrays are present and empty the content
\* holds the no-results placeholder once and no section; and the content
\* holds the placeholder only then.
C17_PlaceholderIffAllEmpty ==
  Displayed =>
    /\ AllEmpty(lastOp.data)
         => /\ CountKind(content, "noResults") = 1
            /\ CountKind(content, "section") = 0
            /\ renderNoResults(lastOp.arg) \in Range(content)
    /\ CountKind(content, "noResults") > 0 => AllEmpty(lastOp.data)

C17_Witness ==
  /\ DisplayedAll
  /\ AllEmpty(lastOp.data)
  /\ lastOp.arg = "ab"
  /\ CountKind(content, "noResults") = 1
  /\ shown /\ contentDisplay = "block"

\* the number of category arrays of a response that are not empty
NonEmptyCount(data) ==
  Cardinality({c \in {"products", "collections", "articles"} :
                 Len(data[c].list) > 0})

\* C18: each response that renders leaves a content that ends with the one
\* view-all link, to the search page for the query of that response, after
\* the sections or the placeholder of that response only: the nodes of an
\* earlier render and the loading placeholder are gone.
C18_OneTrailingViewAllLink ==
  [][(lastOp'.name = "settle" /\ lastOp'.outcome = "rendered")
       => \E f \in inflight \ inflight' :
            LET n == Len(content')
            IN /\ CountKind(content', "viewAll") = 1
               /\ content'[n].kind = "viewAll"
               /\ content'[n].href = "/search?q=" \o EncodeURIComponent(f.query)
               /\ CountKind(content', "section") = NonEmptyCount(lastOp'.data)
               /\ n = 1 + CountKind(content', "section")
                        + CountKind(content', "noResults")]_vars

C18_Witness ==
  /\ Rendered
  /\ inflight = {} /\ fetchCount = 2
  /\ currentQuery = "ab"
  /\ LinkedQuery(content) = "sale"
  /\ content[Len(content)].href = "/search?q=sale"
  /\ CountKind(content, "viewAll") = 1

\* the section nodes of a content, in order
Sections(nodes) == SelectSeq(nodes, LAMBDA node : node.kind = "section")

\* the category arrays of a response that are not empty, with the title of
\* their section, in the order products, collections, articles
NonEmptyCategories(data) ==
  SelectSeq(<<[title |-> "Products", list |-> data.products.list],
              [title |-> "Collections", list |-> data.collections.list],
              [title |-> "Articles", list |-> data.articles.list]>>,
            LAMBDA category : Len(category.list) > 0)

Contains(s, t) ==
  \E i \in 1..(Len(s) - Len(t) + 1) : SubSeq(s, i, i + Len(t) - 1) = t

\* the DOM writes that built a node
NodeWrites(node) ==
  IF node.kind = "section"
  THEN {node.title} \cup
       UNION {{node.items[i].href, node.items[i].src, node.items[i].alt,
               node.items[i].title, node.items[i].line} :
                i \in 1..Len(node.items)}
  ELSE IF node.kind = "noResults" THEN {node.title}
  ELSE IF node.kind = "viewAll" THEN {node.text, Attr(node.href)}
  ELSE {node.html}

Writes(nodes) == UNION {NodeWrites(nodes[i]) : i \in 1..Len(nodes)}

Titles(category) == {category.list[i].title : i \in 1..Len(category.list)}

\* the titles and summaries of a response
ResponseStrings(data) ==
  Titles(data.products) \cup Titles(data.collections) \cup Titles(data.articles)
    \cup {data.articles.list[i].summary : i \in 1..Len(data.articles.list)}

\* C20: after displayResults no write that was parsed as markup holds a
\* title or summary of the response or the query, and each title and summary
\* rendered, and the query, is in the page as the text content of an element.
C20_InputsReachPageAsTextOnly ==
  Displayed =>
    /\ \A w \in Writes(content) :
         w.sink = "innerHTML" =>
           \A t \in ResponseStrings(lastOp.data) \cup {lastOp.arg} :
             ~Contains(w.value, t)
    /\ DisplayedAll =>
         /\ \A t \in ResponseStrings(lastOp.data) : Text(t) \in Writes(content)
         /\ \E w \in Writes(content) :
              w.sink = "textContent" /\ Contains(w.value, lastOp.arg)

C20_Witness ==
  /\ DisplayedAll
  /\ lastOp.arg = "<i>x"
  /\ Text(Injected) \in Writes(content)
  /\ Text("<script>steal()</script>") \in Writes(content)
  /\ \E w \in Writes(content) : w.sink = "textContent" /\ Contains(w.value, "<i>x")

\* the digit a character stands for; 10 for any other character
DigitOf(char) ==
  IF \E d \in 0..9 : ToString(d) = char
  THEN CHOOSE d \in 0..9 : ToString(d) = char
  ELSE 10

RECURSIVE NumberIn(_, _)
\* the number the digits of s spell after the digits that spelled acc, the
\* other characters skipped
NumberIn(s, acc) ==
  IF Len(s) = 0 THEN acc
  ELSE LET d == DigitOf(SubSeq(s, 1, 1))
       IN NumberIn(SubSeq(s, 2, Len(s)), IF d < 10 THEN 10 * acc + d ELSE acc)

\* text is a dollar sign, digits in groups, a point and two digits
TwoDecimalDollars(text) ==
  LET n == Len(text)
  IN /\ n >= 5
     /\ SubSeq(text, 1, 1) = "$"
     /\ SubSeq(text, n - 2, n - 2) = "."
     /\ DigitOf(SubSeq(text, n - 1, n - 1)) < 10
     /\ DigitOf(SubSeq(text, n, n)) < 10
     /\ \A i \in 2..(n - 3) :
          DigitOf(SubSeq(text, i, i)) < 10 \/ SubSeq(text, i, i) = ","

\* C21: a response with one product of price p cents renders one product
\* section with one record, which carries the title of the product and the
\* price as a dollar amount with two decimals whose value is p / 100; 2500
\* is shown as "$25.00".
C21_PriceShownAsDollars ==
  (DisplayedAll /\ lastOp.data \in PricedResponses) =>
    LET product == lastOp.data.products.list[1]
        sections == Sections(content)
    IN /\ Len(sections) = 1
       /\ sections[1].title = Text("Products")
       /\ Len(sections[1].items) = 1
       /\ sections[1].items[1].title = Text(product.title)
       /\ sections[1].items[1].line.sink = "textContent"
       /\ TwoDecimalDollars(sections[1].items[1].line.value)
       /\ NumberIn(sections[1].items[1].line.value, 0) = product.price
       /\ product.price = 2500 => sections[1].items[1].line.value = "$25.00"

C21_Witness ==
  /\ DisplayedAll
  /\ lastOp.data.products = Array(<<Shoe>>)
  /\ lastOp.arg = "sh"
  /\ Sections(content)[1].items[1].title = Text("Shoe")
  /\ Sections(content)[1].items[1].line = Text("$25.00")

\* C22: Escape and an outside click hide the panel and leave the pending
\* timer and the fetches in flight as they are; from a hidden panel the
\* timer that fires calls handleSearch and a response that renders shows its
\* results, either making the panel visible again.
C22_HideCancelsNothing ==
  [][/\ lastOp' \in {EscapeOp, OutsideClickOp}
          => /\ ~shown'
             /\ timers' = timers /\ debounceTimer' = debounceTimer
             /\ inflight' = inflight
     /\ (~shown /\ lastOp'.name = "timer")
          => /\ shown'
             /\ lastHandled'.called
             /\ Cardinality(timers \ timers') = 1
     /\ (~shown /\ lastOp'.name = "settle" /\ lastOp'.outcome = "rendered")
          => /\ shown' /\ contentDisplay' = "block"
             /\ "viewAll" \in NodeKinds(content')]_vars

C22_Witness ==
  /\ Rendered
  /\ fetchCount = 1 /\ inflight = {}
  /\ hiddenSince
  /\ shown /\ contentDisplay = "block"
  /\ currentQuery = ""

\* C23: a handleSearch call with a query of length 0 or 1 leaves the
\* current-query marker as it is, and a call with a query of length >= 2
\* that is the marker changes nothing: no fetch, and the panel stays as it
\* was, the suggestions still displayed when a short query came before.
C23_ShortQueryKeepsMarker ==
  [][/\ (HandleSearchStep /\ Len(lastHandled'.query) < MinQueryLength)
          => currentQuery' = currentQuery
     /\ (HandleSearchStep /\ Len(lastHandled'.query) >= MinQueryLength
           /\ lastHandled'.query = currentQuery)
          => /\ fetchCount' = fetchCount /\ inflight' = inflight
             /\ currentQuery' = currentQuery
             /\ shown' = shown /\ content' = content
             /\ suggestionsDisplay' = suggestionsDisplay
             /\ contentDisplay' = contentDisplay]_vars

C23_Witness ==
  /\ lastOp.name = "suggestionClick"
  /\ lastHandled = Call("ab") /\ currentQuery = "ab"
  /\ repeat = "none"
  /\ fetchCount = 1
  /\ shown /\ suggestionsDisplay = "block" /\ contentDisplay = "none"

\* C24: when a response has rendered after the latest handleSearch call,
\* and that call had a query of length 0 or 1, the panel is shown with the
\* result content displayed and the suggestions not displayed.
C24_RenderReplacesSuggestions ==
  (Rendered /\ lastHandled.called /\ Len(lastHandled.query) < MinQueryLength)
    => /\ shown
       /\ suggestionsDisplay = "none"
       /\ contentDisplay = "block"
       /\ "viewAll" \in NodeKinds(content)

C24_Witness ==
  /\ Rendered
  /\ lastHandled = Call("") /\ inputValue = ""
  /\ ~hiddenSince
  /\ LinkedQuery(content) = "ab"
  /\ shown /\ suggestionsDisplay = "none" /\ contentDisplay = "block"

AllFailureOutcomes == FailureOutcomes \cup {"renderError"}

\* C25: after the failure of a fetch, the newest or an older one, the panel
\* is hidden and the current-query marker is the empty string; and a
\* handleSearch call that repeats the query of the call before it after a
\* hide is not short-circuited: it leaves the marker set, the loading
\* placeholder shown and a new fetch for the query in flight.
C25_FailureResetsMarker ==
  /\ (lastOp.name = "settle" /\ lastOp.outcome \in AllFailureOutcomes)
       => ~shown /\ currentQuery = ""
  /\ (HandleSearchDone /\ repeat = "hidden"
        /\ Len(lastHandled.query) >= MinQueryLength)
       => /\ currentQuery = lastHandled.query
          /\ shown /\ content = <<LoadingNode>>
          /\ lastFetchUrl = SuggestUrl(lastHandled.query)
          /\ [id |-> fetchCount, query |-> lastHandled.query] \in inflight

\* the older fetch has failed while the newer one is in flight
C25_Witness ==
  /\ lastOp = Op("settle", "", "networkError")
  /\ inflight = {[id |-> 1, query |-> "ab"]}
  /\ lastHandled = Call("ab")
  /\ ~shown /\ currentQuery = ""
  /\ hiddenSince

----------------------------------------------------------------------------
\* C26: a click on a suggestion term calls handleSearch(term) in the same
\* step, without a timer of its own, and leaves the pending debounce timers
\* as they were; a timer that fires afterwards hands handleSearch the text
\* it was scheduled with, and when that text is dispatched it becomes the
\* current query and the panel shows the loading view
C26_ClickKeepsPendingTimer ==
  [][/\ lastOp'.name = "suggestionClick"
          => /\ inputValue' \in SuggestionTerms
             /\ lastHandled' = Call(inputValue')
             /\ timers' = timers
             /\ debounceTimer' = debounceTimer
             /\ timerCount' = timerCount
             /\ Dispatches(inputValue')
                  => /\ currentQuery' = inputValue'
                     /\ [id |-> fetchCount', query |-> inputValue'] \in inflight'
     /\ lastOp'.name = "timer"
          => \E t \in timers :
               /\ t.elapsed >= DebounceDelay
               /\ timers' = timers \ {t}
               /\ lastHandled' = Call(t.query)
               /\ Dispatches(t.query)
                    => /\ currentQuery' = t.query
                       /\ shown' /\ content' = <<LoadingNode>>
                       /\ [id |-> fetchCount', query |-> t.query] \in inflight'
    ]_vars

\* the timer of the text typed before the click has fired after the click:
\* the input shows the clicked term, the current query is the older text, and
\* the fetch of the clicked term is still in flight behind the loading view
C26_Witness ==
  /\ lastOp.name = "timer"
  /\ inputValue = PopularTerms[3]
  /\ currentQuery = "ab"
  /\ lastHandled = Call("ab")
  /\ shown /\ content = <<LoadingNode>>
  /\ inflight = {[id |-> 1, query |-> PopularTerms[3]], [id |-> 2, query |-> "ab"]}

----------------------------------------------------------------------------
\* C27: in every reachable state the current-query marker is the empty
\* string, or it has at least MinQueryLength characters and is the query of
\* the fetch issued last
C27_MarkerEmptyOrLastFetch ==
  \/ currentQuery = ""
  \/ /\ Len(currentQuery) >= MinQueryLength
     /\ fetchCount >= 1
     /\ lastFetchUrl = SuggestUrl(currentQuery)

\* a one-character term has been handled while the marker held the query of
\* the last fetch
C27_Witness ==
  /\ lastOp.name = "suggestionClick"
  /\ lastHandled = Call("a")
  /\ currentQuery = "ab"
  /\ lastFetchUrl = SuggestUrl("ab")

----------------------------------------------------------------------------
\* C28: the recent-search buttons are the first RecentShown entries of the
\* history the constructor loaded, and no operation changes them afterwards
C28_RecentButtonsFixed ==
  [][/\ lastOp.name = "constructor"
          => recentButtons = Slice(searchHistory, RecentShown)
     /\ recentButtons' = recentButtons
    ]_vars

\* after a form submission the buttons shown are no longer the first
\* RecentShown entries of the history
C28_Witness ==
  /\ lastOp = Op("submit", "", "added")
  /\ recentButtons # <<>>
  /\ recentButtons # Slice(searchHistory, RecentShown)

----------------------------------------------------------------------------
\* number of nodes appended to document.head for url
AppendedFor(url) == Cardinality({k \in 1..Len(head) : head[k].url = url})

\* C29: whatever entries the intersection observer delivers,
\* loadDeferredAssets appends at most one stylesheet or script per asset
\* url, only for urls it has recorded in loadedAssets, and loadedAssets
\* only grows
C29_AssetAppendedOnce ==
  [][/\ loadedAssets \subseteq loadedAssets'
     /\ Len(head') >= Len(head) /\ SubSeq(head', 1, Len(head)) = head
     /\ \A k \in 1..Len(head') :
          /\ head'[k].url \in loadedAssets'
          /\ \A j \in 1..Len(head') : head'[j].url = head'[k].url => j = k
    ]_vars

\* an element carrying a.css intersected after the stylesheet had been
\* loaded for the other element carrying it: nothing was appended
C29_Witness ==
  /\ lastOp = Op("intersection", "", "skipped")
  /\ AppendedFor("a.css") = 1
  /\ \E e \in observed : e.lazyLoad = "a.css"

----------------------------------------------------------------------------
\* C30: the swipe index stays within 0..TotalSlides-1 and moves by at most
\* one per touchend, and after a touchend or a dot click the translation of
\* the carousel and the active dot are those of the swipe index
C30_ShownSlideIsCurrentSlide ==
  [][/\ currentSlide' \in 0..(TotalSlides - 1)
     /\ Abs(currentSlide' - currentSlide) <= 1
     /\ lastOp'.name \in {"touchend", "dotClick"}
          => /\ transform' = TranslateOf(currentSlide')
             /\ activeDots' = {currentSlide'}
    ]_vars

=============================================================================
